---- MODULE Spec2Model ----
(***************************************************************************)
(* Model of frescobaldi_app/open_file_at_cursor.py: the resolution of      *)
(* \include / (load ...) arguments to file names, for the text cursor      *)
(* (filenames_at_cursor, includeTarget, open_file_at_cursor, open_targets) *)
(* and for the whole document (genToolTipInfo).                            *)
(*                                                                         *)
(* A Python str is a sequence of one-character strings: "/x/f" is          *)
(* <<"/", "x", "/", "f">>.  A list of str is a sequence of such sequences. *)
(***************************************************************************)
EXTENDS Integers, Sequences, FiniteSets, TLC

VARIABLES
    fs,            \* the filesystem: kind of the entry at each file slot
    filename,      \* cursor.document().url().toLocalFile(); "" if unsaved
    includepath,   \* documentinfo.info(doc).includepath()
    call,          \* the function running or completed ("none" before any)
    pc,            \* position inside the running function
    incl,          \* lexer result i.include_args() for the cursor's range
    load,          \* lexer result i.scheme_load_args() for the cursor's range
    sel,           \* cursor.selection().toPlainText(); "" without selection
    existing,      \* the existing argument of filenames_at_cursor
    fnames,        \* local fnames
    filenames,     \* local/result filenames of filenames_at_cursor
    targets,       \* local/result targets of includeTarget, arg of open_targets
    origin,        \* history: index in fnames of the name that appended each entry
    doc,           \* genToolTipInfo: the document, a sequence of blocks
    startIndex,    \* genToolTipInfo: local startIndex
    pointCursor,   \* genToolTipInfo: position of pointCursor, NullCursor if isNull()
    block,         \* genToolTipInfo: blockNumber of local block, -1 outside the body
    toolTipInfo,   \* genToolTipInfo: local/result toolTipInfo
    opened,        \* the paths given to mainwindow.openUrl, in call order
    focused,       \* the handles given to setCurrentDocument, in call order
    ret            \* what the function returned or raised

vars == <<fs, filename, includepath, call, pc, incl, load, sel, existing, fnames,
          filenames, targets, origin, doc, startIndex, pointCursor, block,
          toolTipInfo, opened, focused, ret>>

----------------------------------------------------------------------------
(* Bounds of the model.                                                    *)

MaxBlocks == 2   \* blocks per document
MaxSel == 3      \* characters in the selected text
MaxNames == 2    \* file names the lexer returns for one range

----------------------------------------------------------------------------
(* Strings and os.path (posixpath).                                        *)

Last(s) == s[Len(s)]

Front(s) == SubSeq(s, 1, Len(s) - 1)

Contains(s, c) == \E i \in 1..Len(s) : s[i] = c

\* str.split("/")
RECURSIVE Split(_)
Split(s) ==
    IF ~Contains(s, "/") THEN <<s>>
    ELSE LET i == CHOOSE k \in 1..Len(s) : s[k] = "/" /\ \A j \in 1..(k - 1) : s[j] # "/"
         IN  <<SubSeq(s, 1, i - 1)>> \o Split(SubSeq(s, i + 1, Len(s)))

\* "/".join(comps)
RECURSIVE JoinComps(_)
JoinComps(comps) ==
    IF comps = <<>> THEN <<>>
    ELSE IF Len(comps) = 1 THEN comps[1]
    ELSE comps[1] \o <<"/">> \o JoinComps(Tail(comps))

\* os.path.join(p, f)
Join(p, f) ==
    IF f # <<>> /\ f[1] = "/" THEN f
    ELSE IF p = <<>> \/ Last(p) = "/" THEN p \o f
    ELSE p \o <<"/">> \o f

\* the loop of os.path.normpath over the components
RECURSIVE NormComps(_, _, _)
NormComps(comps, rooted, new) ==
    IF comps = <<>> THEN new
    ELSE LET comp == comps[1]
             rest == Tail(comps)
         IN  IF comp = <<>> \/ comp = <<".">> THEN NormComps(rest, rooted, new)
             ELSE IF comp # <<".", ".">>
                     \/ (~rooted /\ new = <<>>)
                     \/ (new # <<>> /\ Last(new) = <<".", ".">>)
                  THEN NormComps(rest, rooted, Append(new, comp))
             ELSE IF new # <<>> THEN NormComps(rest, rooted, Front(new))
             ELSE NormComps(rest, rooted, new)

\* os.path.normpath(path)
NormPath(path) ==
    IF path = <<>> THEN <<".">>
    ELSE LET slashes == IF path[1] # "/" THEN 0
                        ELSE IF Len(path) >= 2 /\ path[2] = "/"
                                /\ ~(Len(path) >= 3 /\ path[3] = "/") THEN 2
                        ELSE 1
             body == JoinComps(NormComps(Split(path), slashes > 0, <<>>))
             out == [i \in 1..slashes |-> "/"] \o body
         IN  IF out = <<>> THEN <<".">> ELSE out

\* os.path.dirname(p)
DirName(p) ==
    IF ~Contains(p, "/") THEN <<>>
    ELSE LET i == CHOOSE k \in 1..Len(p) : p[k] = "/" /\ \A j \in (k + 1)..Len(p) : p[j] # "/"
             head == SubSeq(p, 1, i)
             n == CHOOSE k \in 0..Len(head) :
                      /\ \A j \in (k + 1)..Len(head) : head[j] = "/"
                      /\ (k > 0 => head[k] # "/")
         IN  IF n = 0 THEN head ELSE SubSeq(head, 1, n)

\* the characters for which str.isspace() holds; one that has no escape in a
\* string literal is written as its code point
WhiteSpace ==
    {"\t", "\n", "U+000B", "\f", "\r", "U+001C", "U+001D", "U+001E", "U+001F", " ",
     "U+0085", "U+00A0", "U+1680", "U+2000", "U+2001", "U+2002", "U+2003",
     "U+2004", "U+2005", "U+2006", "U+2007", "U+2008", "U+2009", "U+200A",
     "U+2028", "U+2029", "U+202F", "U+205F", "U+3000"}

\* c.isspace()
IsSpace(c) == c \in WhiteSpace

\* str.strip()
RECURSIVE Strip(_)
Strip(s) ==
    IF s = <<>> THEN s
    ELSE IF IsSpace(s[1]) THEN Strip(Tail(s))
    ELSE IF IsSpace(Last(s)) THEN Strip(Front(s))
    ELSE s

----------------------------------------------------------------------------
(* The environment: directories, file names, filesystem states.            *)

xdir == <<"/", "x">>
ydir == <<"/", "y">>
zdir == <<"/", "z">>
cwd == <<"/", "w">>

fname == <<"f">>
gname == <<"g">>
sfname == <<"s", "/", ".", ".", "/", "f">>

Names == {fname, gname, sfname}

\* lists of at most n elements of S
RECURSIVE SeqsUpTo(_, _)
SeqsUpTo(S, n) ==
    IF n = 0 THEN {<<>>}
    ELSE LET shorter == SeqsUpTo(S, n - 1)
         IN  shorter \cup {Append(s, x) : s \in {t \in shorter : Len(t) = n - 1}, x \in S}

ArgLists == SeqsUpTo(Names, MaxNames)

SelTexts == SeqsUpTo({"f", " ", "\n", "\r"}, MaxSel)

\* <<p, f, os.path.normpath(os.path.join(p, f))>> for the directories and
\* names of the model, computed once
CandidateTable ==
    {<<a[1], a[2], NormPath(Join(a[1], a[2]))>> :
        a \in {<<>>, xdir, ydir, zdir, cwd} \X (Names \cup SelTexts)}

\* the table as a function of <<p, f>>
CandidateOf ==
    [a \in {<<t[1], t[2]>> : t \in CandidateTable} |->
        (CHOOSE t \in CandidateTable : t[1] = a[1] /\ t[2] = a[2])[3]]

\* name = os.path.normpath(os.path.join(p, f))
Candidate(p, f) ==
    IF <<p, f>> \in DOMAIN CandidateOf THEN CandidateOf[<<p, f>>]
    ELSE NormPath(Join(p, f))

\* the directories that exist (all readable)
Directories == {<<"/">>, xdir, ydir, zdir, cwd}

\* the paths whose entry varies from one filesystem state to another
Slots == {Candidate(xdir, fname), Candidate(ydir, fname), Candidate(zdir, fname)}

\* "none": no entry; "file": readable regular file; "dir": readable directory;
\* "noread": regular file without read permission
Kinds == {"none", "file", "dir", "noread"}

FsStates == {s \in [Slots -> Kinds] : s[Candidate(zdir, fname)] \in {"none", "file"}}

\* kind of the entry a path designates; /y/g is a regular file in every state
Kind(name) ==
    LET abs == IF name # <<>> /\ name[1] = "/" THEN name ELSE Candidate(cwd, name)
    IN  IF abs \in Slots THEN fs[abs]
        ELSE IF abs \in Directories THEN "dir"
        ELSE IF abs = Candidate(ydir, gname) THEN "file"
        ELSE "none"

\* os.path.exists(name) and not os.path.isdir(name)
ExistsNotDir(name) == Kind(name) # "none" /\ Kind(name) # "dir"

\* os.access(name, os.R_OK)
Access(name) == Kind(name) \in {"file", "dir"}

DocFiles == {<<>>, <<"/", "x", "/", "m">>}

IncludePaths == {<<>>, <<ydir>>, <<zdir>>, <<ydir, zdir>>, <<zdir, ydir>>}

\* path = [os.path.dirname(filename)] if filename else []; path.extend(includepath)
SearchPath == (IF filename # <<>> THEN <<DirName(filename)>> ELSE <<>>) \o includepath


----------------------------------------------------------------------------
(* The lexer's answer for the cursor's range, and the selected text.       *)

LoadLists == {<<>>, <<gname>>}

\* the selection varies freely where the code reads it (no lexer arguments)
CursorInputs ==
    {c \in [incl : ArgLists, load : LoadLists, sel : SelTexts] :
        (c.incl # <<>> \/ c.load # <<>>) => c.sel \in {<<>>, <<"f">>}}

\* i.include_args() or i.scheme_load_args()
LexArgs(i) == IF i.incl # <<>> THEN i.incl ELSE i.load

\* filenames_at_cursor: fnames, from the lexer or else from the selection
CursorFnamesNoStrip(i, text) ==
    IF LexArgs(i) = <<>> /\ text # <<>> /\ ~Contains(text, "\n") THEN <<text>>
    ELSE LexArgs(i)
CursorFnames(i, text) ==
    IF LexArgs(i) = <<>> /\ text # <<>> /\ ~Contains(Strip(text), "\n") THEN <<text>>
    ELSE LexArgs(i)

----------------------------------------------------------------------------
(* filenames_at_cursor: "find all docs, trying all include paths".         *)

\* for p in path: ... break / else: ...   (the entries one name f appends)
RECURSIVE CursorInnerFirstRoot(_, _, _, _, _)
CursorInnerFirstRoot(f, path, j, directory, exist) ==
    IF j > Len(path)
    THEN IF ~exist
         THEN <<Candidate(IF path # <<>> THEN path[1] ELSE directory, f)>>
         ELSE <<>>
    ELSE IF Access(Candidate(path[j], f)) THEN <<Candidate(path[j], f)>>
    ELSE CursorInnerFirstRoot(f, path, j + 1, directory, exist)
RECURSIVE CursorInner(_, _, _, _, _)
CursorInner(f, path, j, directory, exist) ==
    IF j > Len(path)
    THEN IF ~exist THEN <<Candidate(directory, f)>> ELSE <<>>
    ELSE IF Access(Candidate(path[j], f)) THEN <<Candidate(path[j], f)>>
    ELSE CursorInner(f, path, j + 1, directory, exist)

\* [name |-> entry, of |-> k] for each entry a list contributes for fnames[k]
Tagged(names, k) == [i \in 1..Len(names) |-> [name |-> names[i], of |-> k]]

\* for f in fnames: ...   (from the k-th name on)
RECURSIVE CursorOuter(_, _, _, _, _)
CursorOuter(fns, path, k, directory, exist) ==
    IF k > Len(fns) THEN <<>>
    ELSE Tagged(CursorInner(fns[k], path, 1, directory, exist), k)
         \o CursorOuter(fns, path, k + 1, directory, exist)

NamesOf(tagged) == [i \in 1..Len(tagged) |-> tagged[i].name]

OriginOf(tagged) == [i \in 1..Len(tagged) |-> tagged[i].of]

----------------------------------------------------------------------------
(* includeTarget.                                                          *)

\* for p in path: if exists and not isdir: targets.append(name); continue
RECURSIVE IncludeInner(_, _, _)
IncludeInner(f, path, j) ==
    IF j > Len(path) THEN <<>>
    ELSE (IF ExistsNotDir(Candidate(path[j], f)) THEN <<Candidate(path[j], f)>> ELSE <<>>)
         \o IncludeInner(f, path, j + 1)

RECURSIVE IncludeOuter(_, _, _)
IncludeOuter(fns, path, k) ==
    IF k > Len(fns) THEN <<>>
    ELSE Tagged(IncludeInner(fns[k], path, 1), k) \o IncludeOuter(fns, path, k + 1)

----------------------------------------------------------------------------
(* genToolTipInfo: the document and its blocks.                            *)

MarkerLen == 8    \* len('\include')

NullCursor == -1  \* pointCursor.isNull()

\* One block: length is block.length() (the text and its separator), marks the
\* offsets in the text where '\include' occurs, incl and load what the lexer
\* returns for the block's range.
Plain == [length |-> 3, marks |-> <<>>, incl |-> <<>>, load |-> <<>>]
    \* c4
Bare == [length |-> 9, marks |-> <<0>>, incl |-> <<>>, load |-> <<>>]
    \* \include
OneArg == [length |-> 13, marks |-> <<0>>, incl |-> <<fname>>, load |-> <<>>]
    \* \include "f"
TwoArgs == [length |-> 26, marks |-> <<0, 13>>, incl |-> <<gname, fname>>, load |-> <<>>]
    \* \include "g" \include "f"
LoadArg == [length |-> 23, marks |-> <<14>>, incl |-> <<>>, load |-> <<fname>>]
    \* #(load "f") % \include

BlockKinds == {Plain, Bare, OneArg, TwoArgs, LoadArg}

Docs == SeqsUpTo(BlockKinds, MaxBlocks) \ {<<>>}

\* block.position() of the block numbered n (from 0)
RECURSIVE Position(_, _)
Position(d, n) == IF n = 0 THEN 0 ELSE Position(d, n - 1) + d[n].length

\* blockNumber of the block holding position pos; -1 if there is none
BlocksFind(d, pos) ==
    IF \E n \in 0..(Len(d) - 1) : Position(d, n) <= pos /\ pos < Position(d, n + 1)
    THEN CHOOSE n \in 0..(Len(d) - 1) : Position(d, n) <= pos /\ pos < Position(d, n + 1)
    ELSE -1

\* the search of document().find('\include', from) from block n, offset off on
RECURSIVE FindInBlocks(_, _, _)
FindInBlocks(d, n, off) ==
    IF n < 0 \/ n >= Len(d) THEN NullCursor
    ELSE LET hits == {i \in 1..Len(d[n + 1].marks) : d[n + 1].marks[i] >= off}
         IN  IF hits # {}
             THEN LET i == CHOOSE h \in hits : \A o \in hits : h <= o
                  IN  Position(d, n) + d[n + 1].marks[i] + MarkerLen
             ELSE FindInBlocks(d, n + 1, 0)

\* cursor.document().find('\include', from): the position of the cursor found
Find(d, from) ==
    LET n == BlocksFind(d, from)
    IN  IF n < 0 THEN NullCursor ELSE FindInBlocks(d, n, from - Position(d, n))

\* tail = head + block.length()
BlockTail(d, n) == Position(d, n) + d[n + 1].length

InvalidContent == <<"This is an invalid include file">>

\* for p in path: if exists and not isdir: content = name; valid = True; break
RECURSIVE ScanInnerNoBreak(_, _, _, _)
ScanInnerNoBreak(f, path, j, info) ==
    IF j > Len(path) THEN info
    ELSE IF ExistsNotDir(Candidate(path[j], f))
         THEN ScanInnerNoBreak(f, path, j + 1,
                               [content |-> Candidate(path[j], f), valid |-> TRUE])
    ELSE ScanInnerNoBreak(f, path, j + 1, info)
RECURSIVE ScanInner(_, _, _, _)
ScanInner(f, path, j, info) ==
    IF j > Len(path) THEN info
    ELSE IF ExistsNotDir(Candidate(path[j], f))
         THEN [content |-> Candidate(path[j], f), valid |-> TRUE]
    ELSE ScanInner(f, path, j + 1, info)

\* for f in fnames: ...   (from the k-th name on)
RECURSIVE ScanOuterFirstName(_, _, _, _)
ScanOuterFirstName(fns, path, k, info) ==
    IF k > Len(fns) \/ info.valid THEN info
    ELSE ScanOuterFirstName(fns, path, k + 1, ScanInner(fns[k], path, 1, info))
RECURSIVE ScanOuter(_, _, _, _)
ScanOuter(fns, path, k, info) ==
    IF k > Len(fns) THEN info
    ELSE ScanOuter(fns, path, k + 1, ScanInner(fns[k], path, 1, info))

\* info['content'] once the loops are over
ScanContent(fns, path) ==
    LET info == ScanOuter(fns, path, 1, [content |-> <<>>, valid |-> FALSE])
    IN  IF info.valid = FALSE THEN InvalidContent ELSE info.content

----------------------------------------------------------------------------
(* open_targets, as called with the positional arguments args.             *)

Mainwindow == <<"mainwindow">>

\* for t in targets: d = mainwindow.openUrl(...); the i-th call returns handle i
OpenTargets(args) ==
    IF Len(args) # 2
    THEN [ret |-> "TypeError", opened |-> <<>>, focused |-> <<>>]
    ELSE LET ts == args[2]
             d == Len(ts)
         IN  IF d # 0
             THEN [ret |-> "True", opened |-> ts, focused |-> <<d>>]
             ELSE [ret |-> "None", opened |-> ts, focused |-> <<>>]

TargetLists ==
    SeqsUpTo({Candidate(xdir, fname), Candidate(ydir, fname), Candidate(ydir, gname)},
             MaxNames)

----------------------------------------------------------------------------
(* The state machine: one call of one function on one environment.         *)

Init ==
    /\ fs \in FsStates
    /\ filename \in DocFiles
    /\ includepath \in IncludePaths
    /\ call = "none"
    /\ pc = "idle"
    /\ incl = <<>>
    /\ load = <<>>
    /\ sel = <<>>
    /\ existing = TRUE
    /\ fnames = <<>>
    /\ filenames = <<>>
    /\ targets = <<>>
    /\ origin = <<>>
    /\ doc = <<>>
    /\ startIndex = 0
    /\ pointCursor = NullCursor
    /\ block = -1
    /\ toolTipInfo = <<>>
    /\ opened = <<>>
    /\ focused = <<>>
    /\ ret = "none"

env == <<fs, filename, includepath>>

scanVars == <<doc, startIndex, pointCursor, block, toolTipInfo>>

\* filenames_at_cursor(cursor, existing)
FilenamesAtCursor ==
    /\ call = "none"
    /\ \E c \in CursorInputs, e \in BOOLEAN :
          LET fns == CursorFnames(c, c.sel)
              found == CursorOuter(fns, SearchPath, 1, DirName(filename), e)
          IN  /\ incl' = c.incl
              /\ load' = c.load
              /\ sel' = c.sel
              /\ existing' = e
              /\ fnames' = fns
              /\ filenames' = NamesOf(found)
              /\ origin' = OriginOf(found)
    /\ call' = "filenames_at_cursor"
    /\ pc' = "done"
    /\ ret' = "list"
    /\ UNCHANGED <<env, scanVars, targets, opened, focused>>

\* includeTarget(cursor)
IncludeTarget ==
    /\ call = "none"
    /\ \E c \in CursorInputs :
          LET fns == LexArgs(c)
              found == IncludeOuter(fns, SearchPath, 1)
          IN  /\ c.sel = <<>>
              /\ incl' = c.incl
              /\ load' = c.load
              /\ fnames' = fns
              /\ targets' = IF fns = <<>> THEN <<>> ELSE NamesOf(found)
              /\ origin' = IF fns = <<>> THEN <<>> ELSE OriginOf(found)
              /\ ret' = IF fns = <<>> THEN "str" ELSE "list"
    /\ call' = "includeTarget"
    /\ pc' = "done"
    /\ UNCHANGED <<env, scanVars, sel, existing, filenames, opened, focused>>

\* open_file_at_cursor(mainwindow, cursor)
OpenFileAtCursor ==
    /\ call = "none"
    /\ \E c \in CursorInputs :
          LET fns == CursorFnames(c, c.sel)
              found == CursorOuter(fns, SearchPath, 1, DirName(filename), TRUE)
              r == OpenTargets(<<NamesOf(found)>>)
          IN  /\ incl' = c.incl
              /\ load' = c.load
              /\ sel' = c.sel
              /\ fnames' = fns
              /\ filenames' = NamesOf(found)
              /\ origin' = OriginOf(found)
              /\ opened' = r.opened
              /\ focused' = r.focused
              /\ ret' = r.ret
    /\ call' = "open_file_at_cursor"
    /\ pc' = "done"
    /\ UNCHANGED <<env, scanVars, existing, targets>>

\* open_targets(mainwindow, targets), called by another module
OpenTargetsCall ==
    /\ call = "none"
    /\ \E ts \in TargetLists :
          LET r == OpenTargets(<<Mainwindow, ts>>)
          IN  /\ targets' = ts
              /\ opened' = r.opened
              /\ focused' = r.focused
              /\ ret' = r.ret
    /\ call' = "open_targets"
    /\ pc' = "done"
    /\ UNCHANGED <<env, scanVars, incl, load, sel, existing, fnames, filenames, origin>>

\* genToolTipInfo(cursor), up to the first find
GenToolTipInfo ==
    /\ call = "none"
    /\ \E d \in Docs :
          /\ doc' = d
          /\ pointCursor' = Find(d, 0)
    /\ toolTipInfo' = <<>>
    /\ startIndex' = 0
    /\ call' = "genToolTipInfo"
    /\ pc' = "while"
    /\ UNCHANGED <<env, block, incl, load, sel, existing, fnames, filenames, targets,
                   origin, opened, focused, ret>>

\* while not pointCursor.isNull(): block, fnames, startIndex = tail
ScanBlock ==
    /\ call = "genToolTipInfo"
    /\ pc = "while"
    /\ pointCursor # NullCursor
    /\ LET n == BlocksFind(doc, pointCursor)
       IN  /\ block' = n
           /\ fnames' = LexArgs(doc[n + 1])
           /\ startIndex' = BlockTail(doc, n)
    /\ pc' = "body"
    /\ UNCHANGED <<env, doc, pointCursor, toolTipInfo, call, incl, load, sel, existing,
                   filenames, targets, origin, opened, focused, ret>>

\* if not fnames: continue
ScanContinue ==
    /\ call = "genToolTipInfo"
    /\ pc = "body"
    /\ fnames = <<>>
    /\ pc' = "while"
    /\ UNCHANGED <<env, scanVars, call, incl, load, sel, existing, fnames, filenames,
                   targets, origin, opened, focused, ret>>

\* the rest of the loop body: resolve, append the entry, find the next marker
ScanAppend ==
    /\ call = "genToolTipInfo"
    /\ pc = "body"
    /\ fnames # <<>>
    /\ toolTipInfo' = Append(toolTipInfo,
                             [num |-> block, content |-> ScanContent(fnames, SearchPath)])
    /\ pointCursor' = Find(doc, startIndex)
    /\ pc' = "while"
    /\ UNCHANGED <<env, doc, startIndex, block, call, incl, load, sel, existing, fnames,
                   filenames, targets, origin, opened, focused, ret>>

\* return toolTipInfo
ScanReturn ==
    /\ call = "genToolTipInfo"
    /\ pc = "while"
    /\ pointCursor = NullCursor
    /\ pc' = "done"
    /\ ret' = "list"
    /\ UNCHANGED <<env, scanVars, call, incl, load, sel, existing, fnames, filenames,
                   targets, origin, opened, focused>>

NextScan == GenToolTipInfo \/ ScanBlock \/ ScanContinue \/ ScanAppend \/ ScanReturn

NextOpen == OpenFileAtCursor \/ OpenTargetsCall

Next == FilenamesAtCursor \/ IncludeTarget \/ NextOpen \/ NextScan

Spec == Init /\ [][Next]_vars

SpecCursor == Init /\ [][FilenamesAtCursor]_vars

SpecInclude == Init /\ [][IncludeTarget]_vars

SpecOpen == Init /\ [][NextOpen]_vars

SpecScan == Init /\ [][NextScan]_vars

\* the interpreter keeps running the loop: no step that can change the state waits
FairScan == SpecScan /\ WF_vars(NextScan)

----------------------------------------------------------------------------
(* Vocabulary of the properties.                                           *)

\* the search-path positions whose directory holds an existing non-directory
\* entry named f
FileDirs(f) ==
    {j \in 1..Len(SearchPath) : ExistsNotDir(Candidate(SearchPath[j], f))}

\* the search-path positions whose candidate for f the cursor resolver accepts
AcceptedDirs(f) ==
    {j \in 1..Len(SearchPath) : Access(Candidate(SearchPath[j], f))}

Least(S) == CHOOSE m \in S : \A o \in S : m <= o

Greatest(S) == CHOOSE m \in S : \A o \in S : m >= o

\* the entries of a result list that the k-th name appended, in order
RECURSIVE EntriesFrom(_, _, _)
EntriesFrom(list, k, i) ==
    IF i > Len(list) THEN <<>>
    ELSE (IF origin[i] = k THEN <<list[i]>> ELSE <<>>) \o EntriesFrom(list, k, i + 1)

EntriesOf(list, k) == EntriesFrom(list, k, 1)

\* the raw references of the block an entry of the scan stands for
RefsOf(entry) == LexArgs(doc[entry.num + 1])

\* the positions in refs of the references some search-path directory holds
ResolvingRefs(refs) == {k \in 1..Len(refs) : FileDirs(refs[k]) # {}}

\* the blocks that hold the marker and yield at least one raw reference
ReferencingBlocks ==
    {n \in 0..(Len(doc) - 1) : doc[n + 1].marks # <<>> /\ LexArgs(doc[n + 1]) # <<>>}

\* text.strip() holds a line break: one stands between two non-blank characters
InnerLineBreak(text) ==
    \E i, j, k \in 1..Len(text) :
        /\ i < j /\ j < k
        /\ ~IsSpace(text[i]) /\ text[j] = "\n" /\ ~IsSpace(text[k])

----------------------------------------------------------------------------
(* The properties.                                                         *)

\* C1: genToolTipInfo terminates on every finite document, also when a block
\* holds the marker and the lexer yields no argument for it: the scan
\* eventually returns.
C1_ScanTerminates == <>(pc = "done")

\* C2: filenames_at_cursor, first match wins: a name that two or more
\* search-path directories hold as a file gets exactly one entry, the
\* normalized join with the earliest of these directories.
C2_FirstMatchWins ==
    call = "filenames_at_cursor" =>
        \A k \in 1..Len(fnames) :
            Cardinality(FileDirs(fnames[k])) >= 2 =>
                EntriesOf(filenames, k)
                    = <<Candidate(SearchPath[Least(FileDirs(fnames[k]))], fnames[k])>>

\* C3: with existing=True every path filenames_at_cursor returns designates an
\* entry that exists and is not a directory.
C3_ReturnedPathsAreFiles ==
    (call = "filenames_at_cursor" /\ existing) =>
        \A i \in 1..Len(filenames) : ExistsNotDir(filenames[i])

\* C4 as claimed: in the scan, when the reference that decides an entry exists
\* under several search-path directories, the content is the match from the
\* LAST of them.
C4_LastDirectoryWins ==
    \A i \in 1..Len(toolTipInfo) :
        LET refs == RefsOf(toolTipInfo[i])
        IN  ResolvingRefs(refs) # {} =>
                LET f == refs[Greatest(ResolvingRefs(refs))]
                IN  Cardinality(FileDirs(f)) >= 2 =>
                        toolTipInfo[i].content
                            = Candidate(SearchPath[Greatest(FileDirs(f))], f)

\* C4 as amended: in the scan, when the reference that decides an entry exists
\* under several search-path directories, the content is the match from the
\* FIRST of them, as in the cursor resolver.
C4_FirstDirectoryWins ==
    \A i \in 1..Len(toolTipInfo) :
        LET refs == RefsOf(toolTipInfo[i])
        IN  ResolvingRefs(refs) # {} =>
                LET f == refs[Greatest(ResolvingRefs(refs))]
                IN  Cardinality(FileDirs(f)) >= 2 =>
                        toolTipInfo[i].content
                            = Candidate(SearchPath[Least(FileDirs(f))], f)

\* C4 witness: an entry whose deciding reference lies under two directories
\* and whose content is the earlier match, not the later one.
C4_Witness ==
    \E i \in 1..Len(toolTipInfo) :
        LET refs == RefsOf(toolTipInfo[i])
        IN  /\ ResolvingRefs(refs) # {}
            /\ LET f == refs[Greatest(ResolvingRefs(refs))]
               IN  /\ Cardinality(FileDirs(f)) >= 2
                   /\ toolTipInfo[i].content = Candidate(SearchPath[Least(FileDirs(f))], f)
                   /\ toolTipInfo[i].content # Candidate(SearchPath[Greatest(FileDirs(f))], f)

\* C5 as claimed: with existing=False and a non-empty search path, a name the
\* resolver accepts under no directory gets exactly one entry, the normalized
\* join of the FIRST search-path directory with it, with or without a
\* document location.
C5_FallbackFirstSearchDir ==
    (call = "filenames_at_cursor" /\ ~existing /\ SearchPath # <<>>) =>
        \A k \in 1..Len(fnames) :
            AcceptedDirs(fnames[k]) = {} =>
                EntriesOf(filenames, k) = <<Candidate(SearchPath[1], fnames[k])>>

\* C5 as amended: with existing=False, a name the resolver accepts under no
\* directory gets exactly one entry: the normalized join of the document's
\* directory with it when the document has a location (then the first
\* search-path directory), and the normalized name alone when it has none.
C5_FallbackDocumentDir ==
    (call = "filenames_at_cursor" /\ ~existing) =>
        \A k \in 1..Len(fnames) :
            AcceptedDirs(fnames[k]) = {} =>
                EntriesOf(filenames, k)
                    = <<IF filename # <<>> THEN Candidate(SearchPath[1], fnames[k])
                        ELSE NormPath(fnames[k])>>

\* C5 witness: an unsaved document with include roots, and an unresolved name
\* whose entry is the normalized name, not a join with the first root.
C5_Witness ==
    /\ call = "filenames_at_cursor" /\ ~existing
    /\ filename = <<>> /\ SearchPath # <<>>
    /\ \E k \in 1..Len(fnames) :
          /\ AcceptedDirs(fnames[k]) = {}
          /\ EntriesOf(filenames, k) = <<NormPath(fnames[k])>>
          /\ NormPath(fnames[k]) # Candidate(SearchPath[1], fnames[k])

\* C6: open_file_at_cursor does not raise; it calls openUrl once per path of
\* filenames_at_cursor(cursor), in order, then focuses the last handle once,
\* and returns True when a file was opened.
C6_OpensEachFileThenFocuses ==
    call = "open_file_at_cursor" =>
        /\ ret # "TypeError"
        /\ opened = filenames
        /\ focused = (IF filenames # <<>> THEN <<Len(filenames)>> ELSE <<>>)
        /\ (filenames # <<>> => ret = "True")

\* C7: every entry of the scan stands for a block with at least one raw
\* reference; its content is the invalid marker exactly when no reference of
\* the block exists as a non-directory under a search-path directory, and
\* otherwise a resolution of the last reference that so exists.
C7_ContentOfEntry ==
    \A i \in 1..Len(toolTipInfo) :
        LET refs == RefsOf(toolTipInfo[i])
            c == toolTipInfo[i].content
        IN  /\ refs # <<>>
            /\ (c = InvalidContent <=> ResolvingRefs(refs) = {})
            /\ ResolvingRefs(refs) # {} =>
                   LET f == refs[Greatest(ResolvingRefs(refs))]
                   IN  c \in {Candidate(SearchPath[j], f) : j \in FileDirs(f)}

\* C7 witness: a returned scan with an entry whose block has two references
\* that both resolve, the content being a resolution of the second and not of
\* the first.
C7_Witness ==
    /\ pc = "done"
    /\ \E i \in 1..Len(toolTipInfo) :
          LET refs == RefsOf(toolTipInfo[i])
          IN  /\ Len(refs) = 2
              /\ ResolvingRefs(refs) = {1, 2}
              /\ toolTipInfo[i].content
                     \in {Candidate(SearchPath[j], refs[2]) : j \in FileDirs(refs[2])}
              /\ toolTipInfo[i].content
                     \notin {Candidate(SearchPath[j], refs[1]) : j \in FileDirs(refs[1])}

\* C8: the scan returns a result with exactly one entry for each block that
\* holds the marker and yields a raw reference, none for any other block, the
\* block numbers strictly increasing.
C8_OneEntryPerReferencingBlock ==
    (call = "genToolTipInfo") ~>
        /\ pc = "done"
        /\ \A n \in 0..(Len(doc) - 1) :
              Cardinality({i \in 1..Len(toolTipInfo) : toolTipInfo[i].num = n})
                  = (IF n \in ReferencingBlocks THEN 1 ELSE 0)
        /\ \A i, j \in 1..Len(toolTipInfo) :
              i < j => toolTipInfo[i].num < toolTipInfo[j].num

\* C9: in filenames_at_cursor, when the lexer yields no argument, fnames is the
\* one selected text if there is a selection whose trimmed text holds no line
\* break and empty otherwise; when the lexer yields arguments, fnames is these
\* arguments whatever the selection.
C9_SelectionFallback ==
    call = "filenames_at_cursor" =>
        /\ (incl = <<>> /\ load = <<>>) =>
               fnames = (IF sel # <<>> /\ ~InnerLineBreak(sel) THEN <<sel>> ELSE <<>>)
        /\ incl # <<>> => fnames = incl
        /\ (incl = <<>> /\ load # <<>>) => fnames = load

\* C9 witness: no lexer argument and a selection that ends with a line break:
\* trimmed it is one line, and the untrimmed text is the one reference.
C9_Witness ==
    /\ call = "filenames_at_cursor"
    /\ incl = <<>> /\ load = <<>>
    /\ Contains(sel, "\n") /\ ~InnerLineBreak(sel)
    /\ fnames = <<sel>>

\* C10: includeTarget returns, for each referenced name, at most one target:
\* the candidate of the earliest search-path directory that holds the name;
\* later directories that hold it contribute nothing.
C10_FirstCombinationOnly ==
    (call = "includeTarget" /\ ret = "list") =>
        \A k \in 1..Len(fnames) :
            EntriesOf(targets, k)
                = (IF FileDirs(fnames[k]) = {} THEN <<>>
                   ELSE <<Candidate(SearchPath[Least(FileDirs(fnames[k]))], fnames[k])>>)

====
